---- MODULE Spec2Model ----
(***************************************************************************)
(* Model of the peer wire protocol engine (src/src/peer.rs) and of the     *)
(* metainfo model it reads (src/src/tfile.rs).                             *)
(*                                                                         *)
(* Byte buffers (Vec<u8>, &[u8], the TCP stream) are run-length encoded:   *)
(* a buffer is a sequence of runs <<byte, count>> with count > 0 and no    *)
(* two adjacent runs of the same byte, so that two buffers are equal       *)
(* exactly when they hold the same bytes.                                  *)
(***************************************************************************)
EXTENDS Integers, Sequences, FiniteSets, TLC

\* ------------------------------------------------------------- bounds
\* download_piece calls made on the connection
MaxCalls == 2

\* ---------------------------------------------------------- constants
BLOCK_SIZE == 16384
DIGEST_LEN == 20

PROTOCOL_STRING ==
    <<66, 105, 116, 84, 111, 114, 114, 101, 110, 116, 32,
      112, 114, 111, 116, 111, 99, 111, 108>>

\* ------------------------------------------------------ byte buffers
Run(b, n) == IF n = 0 THEN <<>> ELSE << <<b, n>> >>

RECURSIVE BLen(_)
BLen(s) == IF s = <<>> THEN 0 ELSE s[1][2] + BLen(Tail(s))

BCat(s, t) ==
    IF s = <<>> THEN t
    ELSE IF t = <<>> THEN s
    ELSE IF s[Len(s)][1] = t[1][1]
         THEN SubSeq(s, 1, Len(s) - 1)
              \o << <<t[1][1], s[Len(s)][2] + t[1][2]>> >>
              \o Tail(t)
         ELSE s \o t

RECURSIVE BTake(_, _)
BTake(s, n) ==
    IF n = 0 \/ s = <<>> THEN <<>>
    ELSE IF s[1][2] <= n
         THEN BCat(<<s[1]>>, BTake(Tail(s), n - s[1][2]))
         ELSE << <<s[1][1], n>> >>

RECURSIVE BDrop(_, _)
BDrop(s, n) ==
    IF n = 0 \/ s = <<>> THEN s
    ELSE IF s[1][2] <= n
         THEN BDrop(Tail(s), n - s[1][2])
         ELSE << <<s[1][1], s[1][2] - n>> >> \o Tail(s)

\* the byte at 0-based position i (i < BLen(s))
RECURSIVE BAt(_, _)
BAt(s, i) == IF i < s[1][2] THEN s[1][1] ELSE BAt(Tail(s), i - s[1][2])

RECURSIVE Bytes(_)
Bytes(q) == IF q = <<>> THEN <<>> ELSE BCat(Run(q[1], 1), Bytes(Tail(q)))

\* ------------------------------------------------------- u32 <-> bytes
u32_from_bytes(data) ==
    BAt(data, 0) * 16777216 + BAt(data, 1) * 65536 + BAt(data, 2) * 256 + BAt(data, 3)

\* u32::to_le_bytes.
to_le_bytes(x) ==
    Bytes(<<x % 256, (x \div 256) % 256, (x \div 65536) % 256, (x \div 16777216) % 256>>)

to_be_bytes(x) ==
    Bytes(<<(x \div 16777216) % 256, (x \div 65536) % 256, (x \div 256) % 256, x % 256>>)

\* ------------------------------------------------------------ SHA-1
\* A 20-byte digest, collision-free: the digest of a buffer names the buffer.
Sha1(data) == [n |-> DIGEST_LEN, of |-> data]

\* ------------------------------------------------------- PeerMessage
Bitfield == [kind |-> "Bitfield"]
Interested == [kind |-> "Interested"]
Unchoke == [kind |-> "Unchoke"]
Request(i, b, l) == [kind |-> "Request", index |-> i, begin |-> b, length |-> l]
Piece(i, b, blk) == [kind |-> "Piece", index |-> i, begin |-> b, block |-> blk]

\* ---------------------------------------------------- receive_message
\* What a read that finds too few bytes does: read_exact fails at end of stream
\* and waits otherwise.
Starved(eof) == [status |-> IF eof THEN "eof" ELSE "block", rest |-> <<>>]

Received(m, rest) == [status |-> "msg", msg |-> m, rest |-> rest]

\* `return self.receive_message()`: the call starts over on what is left of the
\* stream.
Again(rest) == [status |-> "again", rest |-> rest]

\* A slice index out of range.
OutOfRange == [status |-> "panic", rest |-> <<>>]

\* DecodeBody with an unknown id treated as main.rs treats it: a panic.
DecodeBody_strict(id, payload, rest) ==
    CASE id = 5 -> Received(Bitfield, rest)
      [] id = 2 -> Received(Interested, rest)
      [] id = 1 -> Received(Unchoke, rest)
      [] id = 6 ->
           IF BLen(payload) < 12 THEN OutOfRange
           ELSE Received(Request(u32_from_bytes(payload),
                                 u32_from_bytes(BDrop(payload, 4)),
                                 u32_from_bytes(BDrop(payload, 8))), rest)
      [] id = 7 ->
           IF BLen(payload) < 8 THEN OutOfRange
           ELSE Received(Piece(u32_from_bytes(payload),
                               u32_from_bytes(BDrop(payload, 4)),
                               BDrop(payload, 8)), rest)
      [] OTHER -> OutOfRange

\* The match on the message id, with the payload already read.
DecodeBody(id, payload, rest) ==
    CASE id = 5 -> Received(Bitfield, rest)
      [] id = 2 -> Received(Interested, rest)
      [] id = 1 -> Received(Unchoke, rest)
      [] id = 6 ->
           IF BLen(payload) < 12 THEN OutOfRange
           ELSE Received(Request(u32_from_bytes(payload),
                                 u32_from_bytes(BDrop(payload, 4)),
                                 u32_from_bytes(BDrop(payload, 8))), rest)
      [] id = 7 ->
           IF BLen(payload) < 8 THEN OutOfRange
           ELSE Received(Piece(u32_from_bytes(payload),
                               u32_from_bytes(BDrop(payload, 4)),
                               BDrop(payload, 8)), rest)
      [] OTHER -> Again(rest)

\* receive_message without lines 81-83: a zero length goes on to `length -= 1`.
receive_message_nokeepalive(stream, eof) ==
    IF BLen(stream) < 4 THEN Starved(eof)
    ELSE LET length == u32_from_bytes(BTake(stream, 4))
             s1 == BDrop(stream, 4)
         IN  IF length = 0 THEN OutOfRange
             ELSE IF BLen(s1) < 1 THEN Starved(eof)
             ELSE IF BLen(s1) - 1 < length - 1 THEN Starved(eof)
             ELSE DecodeBody(BAt(s1, 0), BTake(BDrop(s1, 1), length - 1),
                             BDrop(s1, length))

\* One pass through receive_message on the bytes `stream`, up to its return or
\* to its call of itself.
receive_message(stream, eof) ==
    IF BLen(stream) < 4 THEN Starved(eof)
    ELSE LET length == u32_from_bytes(BTake(stream, 4))
             s1 == BDrop(stream, 4)
         IN  IF length = 0 THEN Again(s1)
             ELSE IF BLen(s1) < 1 THEN Starved(eof)
             ELSE IF BLen(s1) - 1 < length - 1 THEN Starved(eof)
             ELSE DecodeBody(BAt(s1, 0), BTake(BDrop(s1, 1), length - 1),
                             BDrop(s1, length))

\* ------------------------------------------------------- send_message
\* The chunks send_message hands to stream.write, one per call of write.
send_message(message) ==
    CASE message.kind = "Interested" ->
           [panic |-> FALSE, writes |-> <<to_be_bytes(1), Bytes(<<2>>)>>]
      [] message.kind = "Request" ->
           [panic |-> FALSE,
            writes |-> <<to_be_bytes(13), Bytes(<<6>>), to_be_bytes(message.index),
                         to_be_bytes(message.begin), to_be_bytes(message.length)>>]
      [] OTHER -> [panic |-> TRUE, writes |-> <<>>]

\* --------------------------------------------------- TorrentFileInfo
\* pieces_data is held as its 20-byte chunks (the last may be shorter); a chunk
\* is a digest [n |-> bytes it holds, of |-> the buffer it is the digest of].
RECURSIVE pieces_len(_)
pieces_len(chunks) == IF chunks = <<>> THEN 0 ELSE chunks[1].n + pieces_len(Tail(chunks))

pieces(info) == info.pieces_data

n_pieces(info) == pieces_len(info.pieces_data) \div DIGEST_LEN

Ret(v) == [panic |-> FALSE, val |-> v]
Panicked == [panic |-> TRUE, val |-> 0]

\* `n_pieces - 1` is a usize subtraction: with no piece it panics when the build
\* checks overflow and wraps to usize::MAX otherwise, and every n that was a u32
\* is below usize::MAX.
nth_plength(info, n, checks) ==
    LET np == n_pieces(info)
    IN  IF np = 0
        THEN IF checks THEN Panicked ELSE Ret(info.plength)
        ELSE IF n < np - 1 THEN Ret(info.plength)
        ELSE IF n = np - 1 THEN Ret(info.length % info.plength)
        ELSE Ret(0)

to_bencode(info) == <<"d", info.length, info.name, info.plength, info.pieces_data, "e">>

hash(info) == Sha1(to_bencode(info))

\* ------------------------------------------------ TorrentFile::from_file
\* A metainfo blob is held as what serde_bencode reads from it: the pairs <<key,
\* value>> of the outer dictionary in the order of the input, the value of "info"
\* being the pairs of the info dictionary, and the value of "pieces" the 20-byte
\* chunks of the buffer (the last may be shorter).
Has(d, k) == \E i \in 1..Len(d) : d[i][1] = k

Get(d, k) == d[CHOOSE i \in 1..Len(d) : d[i][1] = k][2]

ParseError == [ok |-> FALSE]

\* The derived Deserialize of TorrentFile and TorrentFileInfo: every field of the
\* struct must be there, under its serde name; a key that names no field is read
\* over; nothing else is looked at.
from_bytes(blob) ==
    IF ~Has(blob, "announce") \/ ~Has(blob, "info") THEN ParseError
    ELSE LET i == Get(blob, "info")
         IN  IF \E k \in {"length", "name", "piece length", "pieces"} : ~Has(i, k)
             THEN ParseError
             ELSE [ok |-> TRUE,
                   file |-> [announce |-> Get(blob, "announce"),
                             info |-> [length |-> Get(i, "length"),
                                       name |-> Get(i, "name"),
                                       plength |-> Get(i, "piece length"),
                                       pieces_data |-> Get(i, "pieces")]]]

\* ------------------------------------------------- the shared content
\* What the descriptor's digests are digests of: piece i of the content is made
\* of blocks of BLOCK_SIZE bytes, block k of piece i filled with BlockByte(i, k).
BlockByte(i, k) == 16 * (i + 1) + k

PieceCount(len, plen) == (len + plen - 1) \div plen

PieceLen(len, plen, i) ==
    IF i < PieceCount(len, plen) - 1 THEN plen
    ELSE IF len % plen = 0 THEN plen ELSE len % plen

RECURSIVE Fill(_, _, _)
Fill(i, k, n) ==
    IF n = 0 THEN <<>>
    ELSE IF n <= BLOCK_SIZE THEN Run(BlockByte(i, k), n)
    ELSE BCat(Run(BlockByte(i, k), BLOCK_SIZE), Fill(i, k + 1, n - BLOCK_SIZE))

PieceData(len, plen, i) == Fill(i, 0, PieceLen(len, plen, i))

MkInfo(len, plen, np) ==
    [length |-> len, name |-> "sample.txt", plength |-> plen,
     pieces_data |-> [i \in 1..np |-> Sha1(PieceData(len, plen, i - 1))]]

\* The descriptors the runs start from: the spec's example (17 bytes in pieces of
\* 10), a length that is a multiple of the piece length, pieces of several blocks,
\* and a descriptor with no piece digest.
Infos ==
    { MkInfo(17, 10, 2),
      MkInfo(20, 10, 2),
      MkInfo(49157, 32773, 2),
      MkInfo(0, 10, 0) }

\* ------------------------------------------------- the remote peer's frames
\* A frame on the wire: a 4-byte big-endian length, then the id and the payload.
\* A keepalive (id -1) is the length 0 alone; a torn frame (id -2) is a length
\* that announces bytes the peer never sends; Closed (id -3) stands for the end
\* of the stream.
Frame(id, payload) == [id |-> id, payload |-> payload]
KeepAlive == Frame(-1, <<>>)
Torn == Frame(-2, to_be_bytes(9))
Closed == Frame(-3, <<>>)
\* An extension message, whose payload reads like an Unchoke frame.
Extension == Frame(20, Bytes(<<0, 0, 0, 1, 1>>))

Encode(fr) ==
    CASE fr.id = -1 -> to_be_bytes(0)
      [] fr.id \in {-2, -3} -> fr.payload
      [] OTHER -> BCat(BCat(to_be_bytes(1 + BLen(fr.payload)), Run(fr.id, 1)), fr.payload)

RECURSIVE EncodeAll(_)
EncodeAll(fs) == IF fs = <<>> THEN <<>> ELSE BCat(Encode(fs[1]), EncodeAll(Tail(fs)))

PieceFrame(i, b, blk) == Frame(7, BCat(BCat(to_be_bytes(i), to_be_bytes(b)), blk))

\* Frames the peer may send whatever the client asked for: a keepalive, an
\* extension message, Bitfield, Unchoke, Interested, a Request, a Piece message
\* cut short and an unrequested Piece.
ControlFrames ==
    { KeepAlive,
      Extension,
      Frame(5, Bytes(<<192>>)),
      Frame(1, <<>>),
      Frame(2, <<>>),
      Frame(6, BCat(BCat(to_be_bytes(0), to_be_bytes(0)), to_be_bytes(BLOCK_SIZE))),
      Frame(7, to_be_bytes(0)),
      PieceFrame(0, 0, Run(255, 1)) }

\* ------------------------------------------------------------- state
VARIABLES
    overflow_checks, \* whether the build checks integer overflow: "on" (debug), "off"
                     \* (release), "unknown" until an overflow shows which build runs
    info,            \* the TorrentFileInfo of the descriptor the peer was created for
    pc,              \* where the client is: "start", "idle" (between calls),
                     \* "bitfield", "unchoke", "piece" (download_piece blocked in
                     \* receive_message), "panicked"
    err,             \* why the client panicked
    conn,            \* the PeerConnection handshake returned
    initiated,       \* PeerConnection.initiated
    index,           \* download_piece: the index argument
    plength, begin, length, piece_data, \* download_piece: its locals
    inb,             \* bytes the remote peer sent that the client has not read
    eof,             \* the remote peer closed the stream
    out,             \* every chunk the client handed to stream.write, in order
    sink,            \* the bytes written to the output sink
    calls,           \* download_piece calls made so far
    frames,          \* history: the frames that make up inb
    log,             \* history: the messages send_message was given ("send") and
                     \* those receive_message returned ("recv"), in order
    call_log,        \* history: Len(log) when the current call started
    call_sink,       \* history: BLen(sink) when the current call started
    last_recv,       \* history: the last receive_message call
    call             \* a function of the program applied on its own: which one, its
                     \* argument and what it returned

vars ==
    <<overflow_checks, info, pc, err, conn, initiated, index, plength, begin, length,
      piece_data, inb, eof, out, sink, calls, frames, log, call_log, call_sink,
      last_recv, call>>

Waiting == {"bitfield", "unchoke", "piece"}

NoCall == [fn |-> "none"]

NoConn == [protocol |-> <<>>, info_hash |-> Sha1(<<>>), peer_id |-> <<>>]

\* PEER_ID, "00112233445566778899"
PEER_ID == <<48, 48, 49, 49, 50, 50, 51, 51, 52, 52, 53, 53, 54, 54, 55, 55, 56, 56, 57, 57>>

RemotePeerId == Run(45, 20)

\* A content identifier that is not the local descriptor's.
OtherHash(i) == hash([i EXCEPT !.length = i.length + 1])

Init ==
    /\ overflow_checks = "unknown"
    /\ info \in Infos
    /\ pc = "start"
    /\ err = ""
    /\ conn = NoConn
    /\ initiated = FALSE
    /\ index = 0
    /\ plength = 0
    /\ begin = 0
    /\ length = 0
    /\ piece_data = <<>>
    /\ inb = <<>>
    /\ eof = FALSE
    /\ out = <<>>
    /\ sink = <<>>
    /\ calls = 0
    /\ frames = <<>>
    /\ log = <<>>
    /\ call_log = 0
    /\ call_sink = 0
    /\ last_recv = [at |-> "none", frame |-> Closed, status |-> "none",
                    msg |-> [kind |-> "none"]]
    /\ call = NoCall

\* ---------------------------------------------------- Peer::handshake
HandshakeWrites(i) ==
    <<Bytes(<<Len(PROTOCOL_STRING)>>), Bytes(PROTOCOL_STRING), Run(0, 8), hash(i),
      Bytes(PEER_ID)>>

\* The remote peer answers with a protocol string, a content identifier and a
\* peer id; the connection is built from whatever it answered.
handshake(remote_hash) ==
    /\ pc = "start"
    /\ out' = out \o HandshakeWrites(info)
    /\ conn' = [protocol |-> Bytes(PROTOCOL_STRING), info_hash |-> remote_hash,
                peer_id |-> RemotePeerId]
    /\ initiated' = FALSE
    /\ pc' = "idle"
    /\ UNCHANGED <<call, overflow_checks, info, err, index, plength, begin, length,
                   piece_data,
                   inb, eof, sink, calls, frames, log, call_log, call_sink, last_recv>>

\* connect fails, or the stream ends before the 68 bytes were read: unwrap panics.
handshake_fails(connected) ==
    /\ pc = "start"
    /\ out' = IF connected THEN out \o HandshakeWrites(info) ELSE out
    /\ pc' = "panicked"
    /\ err' = "transport"
    /\ UNCHANGED <<call, overflow_checks, info, conn, initiated, index, plength, begin,
                   length,
                   piece_data, inb, eof, sink, calls, frames, log, call_log, call_sink,
                   last_recv>>

\* ------------------------------------------------------ the remote peer
\* n bytes of the shared content, from offset off of piece i (bytes no piece
\* holds are 255).
TrueBytes(i, off, n) ==
    IF i < PieceCount(info.length, info.plength)
    THEN LET d == BTake(BDrop(PieceData(info.length, info.plength, i), off), n)
         IN  BCat(d, Run(255, n - BLen(d)))
    ELSE Run(255, n)

\* The Piece frames a peer may answer Request(i, b, n) with: the block asked for,
\* the block and one more byte, the block less its first byte, another block of
\* the piece, and a block of another piece.
PieceFrames(i, b, n) ==
    { PieceFrame(i, b, TrueBytes(i, b, n)),
      PieceFrame(i, b, TrueBytes(i, b, n + 1)),
      PieceFrame(i, b + 1, TrueBytes(i, b + 1, n - 1)),
      PieceFrame(i, IF b = 0 THEN BLOCK_SIZE ELSE 0,
                 TrueBytes(i, IF b = 0 THEN BLOCK_SIZE ELSE 0, n)),
      PieceFrame(i + 1, b, TrueBytes(i + 1, b, n)) }

\* The frames the peer may send ahead of what the client waits for.
AheadFrames == {Frame(1, <<>>)}

\* What the peer does while the client waits in receive_message. The stream
\* delivers in order, so the client reads the same bytes whether the peer sends
\* early or when the client waits: the peer sends when the client has nothing
\* left to read, one frame, or one frame and a frame ahead, or it closes the
\* stream, at a frame boundary or inside a frame.
Deliveries(menu) ==
    IF inb # <<>> THEN {<<>>}
    ELSE {<<m>> : m \in menu \cup {Closed, Torn}}
         \cup {<<m, a>> : m \in menu, a \in AheadFrames}

Arrived(fs) == BCat(inb, EncodeAll(fs))

Closes(fs) == fs # <<>> /\ fs[1].id \in {-2, -3}

\* ------------------------------------------- PeerConnection::download_piece
Sent(m) == [dir |-> "send", msg |-> m]
Recv(m) == [dir |-> "recv", msg |-> m]

\* panic!, or unwrap on an error: the call never returns and the connection is
\* never used again.
Fail(reason, lg) ==
    /\ pc' = "panicked"
    /\ err' = reason
    /\ log' = lg
    /\ UNCHANGED <<plength, begin, length, piece_data, out, sink>>

\* Verify without the comparison of the digests.
Verify_unchecked(idx, pl, b, pd, lg) ==
    IF idx >= Len(pieces(info)) THEN Fail("unwrap", lg)
    ELSE /\ sink' = BCat(sink, pd)
         /\ pc' = "idle"
         /\ plength' = pl
         /\ begin' = b
         /\ piece_data' = pd
         /\ log' = lg
         /\ UNCHANGED <<err, length, out>>

\* Verify with the lengths of the digests compared and not their bytes.
Verify_digest_len(idx, pl, b, pd, lg) ==
    IF idx >= Len(pieces(info)) THEN Fail("unwrap", lg)
    ELSE LET computed_hash == Sha1(pd)
             piece_hash == pieces(info)[idx + 1]
         IN  IF computed_hash.n # piece_hash.n THEN Fail("integrity", lg)
             ELSE /\ sink' = BCat(sink, pd)
                  /\ pc' = "idle"
                  /\ plength' = pl
                  /\ begin' = b
                  /\ piece_data' = pd
                  /\ log' = lg
                  /\ UNCHANGED <<err, length, out>>

\* Lines 195-210: the digest of the assembled buffer against pieces().nth(index).
Verify(idx, pl, b, pd, lg) ==
    IF idx >= Len(pieces(info)) THEN Fail("unwrap", lg)
    ELSE LET computed_hash == Sha1(pd)
             piece_hash == pieces(info)[idx + 1]
         IN  IF computed_hash.n # piece_hash.n THEN Fail("integrity", lg)
             ELSE IF computed_hash # piece_hash THEN Fail("integrity", lg)
             ELSE /\ sink' = BCat(sink, pd)
                  /\ pc' = "idle"
                  /\ plength' = pl
                  /\ begin' = b
                  /\ piece_data' = pd
                  /\ log' = lg
                  /\ UNCHANGED <<err, length, out>>

\* Lines 166-170: the length of the block requested at offset b of a piece of pl bytes.
block_length_full(b, pl) == BLOCK_SIZE

block_length(b, pl) == IF b + BLOCK_SIZE < pl THEN BLOCK_SIZE ELSE pl - b

\* BlockLoop with `while begin <= plength`.
BlockLoop_inclusive(idx, pl, b, pd, lg) ==
    IF b <= pl
    THEN LET len == block_length(b, pl)
             m == Request(idx, b, len)
         IN  /\ log' = Append(lg, Sent(m))
             /\ out' = out \o send_message(m).writes
             /\ pc' = "piece"
             /\ plength' = pl
             /\ begin' = b
             /\ length' = len
             /\ piece_data' = pd
             /\ UNCHANGED <<err, sink>>
    ELSE Verify(idx, pl, b, pd, lg)

\* Lines 165-193: the head of the block loop with begin = b and piece_data = pd,
\* up to the next receive_message or to the end of the call.
BlockLoop(idx, pl, b, pd, lg) ==
    IF b < pl
    THEN LET len == block_length(b, pl)
             m == Request(idx, b, len)
         IN  /\ log' = Append(lg, Sent(m))
             /\ out' = out \o send_message(m).writes
             /\ pc' = "piece"
             /\ plength' = pl
             /\ begin' = b
             /\ length' = len
             /\ piece_data' = pd
             /\ UNCHANGED <<err, sink>>
    ELSE IF b = 0
    THEN /\ pc' = "idle"
         /\ plength' = pl
         /\ begin' = b
         /\ piece_data' = pd
         /\ log' = lg
         /\ UNCHANGED <<err, length, out, sink>>
    ELSE Verify(idx, pl, b, pd, lg)

\* Lines 159-163. An overflow in nth_plength shows which build runs. The lengths
\* of the model are far below 2^32, where `as u32` changes nothing.
StartPiece(idx, lg) ==
    \E checks \in BOOLEAN :
        LET r == nth_plength(info, idx, checks)
        IN  /\ IF n_pieces(info) = 0
               THEN /\ overflow_checks \in {"unknown", IF checks THEN "on" ELSE "off"}
                    /\ overflow_checks' = IF checks THEN "on" ELSE "off"
               ELSE /\ checks
                    /\ UNCHANGED overflow_checks
            /\ IF r.panic THEN Fail("overflow", lg) ELSE BlockLoop(idx, r.val, 0, <<>>, lg)

FailReason(r) == IF r.status = "eof" THEN "transport" ELSE "protocol"

\* One pass through receive_message, which returns r: the peer has delivered fs;
\* the pass takes the first frame of the stream.
Read(fs, r) ==
    /\ r.status # "block"
    /\ eof' = (eof \/ Closes(fs))
    /\ inb' = r.rest
    /\ frames' = IF r.status \in {"msg", "again"} THEN Tail(frames \o fs) ELSE <<>>
    /\ last_recv' =
         [at |-> pc, frame |-> (frames \o fs)[1], status |-> r.status,
          msg |-> IF r.status = "msg" THEN r.msg ELSE [kind |-> "none"]]

\* What download_piece has in hand when receive_message returns r.
Logged(r) == IF r.status = "msg" THEN Append(log, Recv(r.msg)) ELSE log

\* StillWaiting with the Request sent again when a pass ends without a message.
StillWaiting_resend ==
    /\ log' = IF pc = "piece" THEN Append(log, Sent(Request(index, begin, length))) ELSE log
    /\ out' = IF pc = "piece"
              THEN out \o send_message(Request(index, begin, length)).writes
              ELSE out
    /\ UNCHANGED <<overflow_checks, pc, err, initiated, plength, begin, length, piece_data,
                   sink>>

\* The pass ended in a call of receive_message itself: download_piece still
\* waits for the same message.
StillWaiting ==
    UNCHANGED <<overflow_checks, pc, err, initiated, plength, begin, length, piece_data,
                out, sink, log>>

\* Unexpected with a returned message of the wrong kind waited out.
Unexpected_ignored(r) ==
    IF r.status = "msg" THEN StillWaiting
    ELSE /\ Fail(FailReason(r), Logged(r))
         /\ UNCHANGED <<overflow_checks, initiated>>

\* Lines 148, 154 and 186, `_ => panic!("Expected ...")`, and the unwrap of an
\* error of receive_message at lines 146, 152 and 180.
Unexpected(r) ==
    /\ Fail(FailReason(r), Logged(r))
    /\ UNCHANGED <<overflow_checks, initiated>>

\* download_piece without the use of the initiated flag: always ready.
download_piece_uninitiated(i) ==
    /\ pc = "idle"
    /\ calls < MaxCalls
    /\ calls' = calls + 1
    /\ index' = i
    /\ call_log' = Len(log)
    /\ call_sink' = BLen(sink)
    /\ StartPiece(i, log)
    /\ UNCHANGED <<call, info, conn, initiated, inb, eof, frames, last_recv>>

\* download_piece without the use of the initiated flag: never ready.
download_piece_reinitiated(i) ==
    /\ pc = "idle"
    /\ calls < MaxCalls
    /\ calls' = calls + 1
    /\ index' = i
    /\ call_log' = Len(log)
    /\ call_sink' = BLen(sink)
    /\ pc' = "bitfield"
    /\ UNCHANGED <<overflow_checks, err, plength, begin, length, piece_data, out, sink, log>>
    /\ UNCHANGED <<call, info, conn, initiated, inb, eof, frames, last_recv>>

download_piece(i) ==
    /\ pc = "idle"
    /\ calls < MaxCalls
    /\ calls' = calls + 1
    /\ index' = i
    /\ call_log' = Len(log)
    /\ call_sink' = BLen(sink)
    /\ IF ~initiated
       THEN /\ pc' = "bitfield"
            /\ UNCHANGED <<overflow_checks, err, plength, begin, length, piece_data, out,
                           sink, log>>
       ELSE StartPiece(i, log)
    /\ UNCHANGED <<call, info, conn, initiated, inb, eof, frames, last_recv>>

\* Line 146, and line 150 when the message is Bitfield.
recv_bitfield(fs) ==
    /\ pc = "bitfield"
    /\ LET r == receive_message(Arrived(fs), eof \/ Closes(fs))
       IN  /\ Read(fs, r)
           /\ CASE r.status = "again" -> StillWaiting
                [] r.status = "msg" /\ r.msg.kind = "Bitfield" ->
                     /\ log' = Append(Logged(r), Sent(Interested))
                     /\ out' = out \o send_message(Interested).writes
                     /\ pc' = "unchoke"
                     /\ UNCHANGED <<overflow_checks, err, initiated, plength, begin,
                                    length, piece_data, sink>>
                [] OTHER -> Unexpected(r)
    /\ UNCHANGED <<call, info, conn, index, calls, call_log, call_sink>>

\* Lines 152-156, then the call goes on to the block loop.
recv_unchoke(fs) ==
    /\ pc = "unchoke"
    /\ LET r == receive_message(Arrived(fs), eof \/ Closes(fs))
       IN  /\ Read(fs, r)
           /\ CASE r.status = "again" -> StillWaiting
                [] r.status = "msg" /\ r.msg.kind = "Unchoke" ->
                     /\ initiated' = TRUE
                     /\ StartPiece(index, Logged(r))
                [] OTHER -> Unexpected(r)
    /\ UNCHANGED <<call, info, conn, index, calls, call_log, call_sink>>

\* Lines 180-187, then the block loop again.
recv_piece(fs) ==
    /\ pc = "piece"
    /\ LET r == receive_message(Arrived(fs), eof \/ Closes(fs))
       IN  /\ Read(fs, r)
           /\ CASE r.status = "again" -> StillWaiting
                [] r.status = "msg" /\ r.msg.kind = "Piece" ->
                     /\ BlockLoop(index, plength, begin + length,
                                  BCat(piece_data, r.msg.block), Logged(r))
                     /\ UNCHANGED <<overflow_checks, initiated>>
                [] OTHER -> Unexpected(r)
    /\ UNCHANGED <<call, info, conn, index, calls, call_log, call_sink>>

Next ==
    \/ \E h \in {hash(info), OtherHash(info)} : handshake(h)
    \/ \E c \in BOOLEAN : handshake_fails(c)
    \/ \E i \in 0..n_pieces(info) : download_piece(i)
    \/ \E fs \in Deliveries(ControlFrames) : recv_bitfield(fs)
    \/ \E fs \in Deliveries(ControlFrames) : recv_unchoke(fs)
    \/ \E fs \in Deliveries(ControlFrames \cup PieceFrames(index, begin, length)) :
          recv_piece(fs)

Spec == Init /\ [][Next]_vars

\* ------------------------------------------------------ a peer that answers
\* The most Requests a call sends for a piece of the descriptors of Infos, the
\* longest of which has 32773 bytes.
MaxBlocks == (32773 + BLOCK_SIZE - 1) \div BLOCK_SIZE

\* Call c waits in receive_message (line 180) for the answer to its k-th Request.
Unanswered(c, k) ==
    /\ pc = "piece"
    /\ calls = c
    /\ Len(SelectSeq(SubSeq(log, call_log + 1, Len(log)),
                     LAMBDA e : e.dir = "send" /\ e.msg.kind = "Request")) = k

\* The client reads what has arrived, and no Request waits for ever: after
\* finitely many keepalives and unrecognized messages the peer sends a message
\* that receive_message returns, or the stream ends.
Fairness ==
    \A c \in 1..MaxCalls, k \in 1..MaxBlocks : []<>~Unanswered(c, k)

SpecFair == Spec /\ Fairness

\* ------------------------------------------ main.rs: decode_bencoded_value
\* A &str is the sequence of its characters, each a string of length one (the
\* inputs are ASCII: a character is a byte). Indexes are those of the code, from 0.
DigitSeq == <<"0", "1", "2", "3", "4", "5", "6", "7", "8", "9">>

is_digit(c) == \E n \in 1..Len(DigitSeq) : DigitSeq[n] = c

to_digit(c) == (CHOOSE n \in 1..Len(DigitSeq) : DigitSeq[n] = c) - 1

\* The index of the last c in s (str::rfind).
find_last(s, c) ==
    IF \E i \in 1..Len(s) : s[i] = c
    THEN (CHOOSE i \in 1..Len(s) : s[i] = c /\ \A j \in (i + 1)..Len(s) : s[j] # c) - 1
    ELSE -1

\* str::find: the index of the first c in s, -1 for None.
find(s, c) ==
    IF \E i \in 1..Len(s) : s[i] = c
    THEN (CHOOSE i \in 1..Len(s) : s[i] = c /\ \A j \in 1..(i - 1) : s[j] # c) - 1
    ELSE -1

RECURSIVE digits_value(_)
digits_value(ds) ==
    IF ds = <<>> THEN 0
    ELSE digits_value(SubSeq(ds, 1, Len(ds) - 1)) * 10 + to_digit(ds[Len(ds)])

\* parse_i64 that takes no sign.
parse_i64_unsigned(t) ==
    IF t = <<>> \/ \E i \in 1..Len(t) : ~is_digit(t[i])
    THEN [ok |-> FALSE, val |-> 0]
    ELSE [ok |-> TRUE, val |-> digits_value(t)]

\* str::parse::<i64>: an optional sign, '+' or '-', then one digit or more (the
\* numbers of the inputs are far from the ends of i64).
parse_i64(t) ==
    LET signed == t # <<>> /\ t[1] \in {"+", "-"}
        ds == IF signed THEN Tail(t) ELSE t
    IN  IF ds = <<>> \/ \E i \in 1..Len(ds) : ~is_digit(ds[i])
        THEN [ok |-> FALSE, val |-> 0]
        ELSE [ok |-> TRUE, val |-> IF t[1] = "-" THEN 0 - digits_value(ds) ELSE digits_value(ds)]

\* serde_json::Value
String(v) == [t |-> "String", v |-> v]
Number(n) == [t |-> "Number", v |-> n]
Array(items) == [t |-> "Array", v |-> items]
Object(dict) == [t |-> "Object", v |-> dict]

\* Map::new and Map::insert: a map is a function from its keys.
Map_new == [k \in {} |-> 0]

insert(dict, key, value) ==
    [k \in (DOMAIN dict) \cup {key} |-> IF k = key THEN value ELSE dict[k]]

\* Decode::new, and the panics: unwrap of None or Err, a slice out of range,
\* "Expected string key", "Unhandled encoded value".
Decode(len, value) == [ok |-> TRUE, length |-> len, value |-> value]

DecodePanic == [ok |-> FALSE]

RECURSIVE decode_bencoded_value(_), decode_list(_, _, _), decode_dict(_, _, _)

decode_bencoded_value(encoded_value) ==
    IF encoded_value = <<>> THEN DecodePanic
    ELSE LET next == encoded_value[1]
         IN  IF is_digit(next)
             THEN LET colon_index == find(encoded_value, ":")
                      number == parse_i64(SubSeq(encoded_value, 1, colon_index))
                  IN  IF colon_index < 0 THEN DecodePanic
                      ELSE IF ~number.ok THEN DecodePanic
                      ELSE IF colon_index + 1 + number.val > Len(encoded_value)
                      THEN DecodePanic
                      ELSE Decode(colon_index + 1 + number.val,
                                  String(SubSeq(encoded_value, colon_index + 2,
                                                colon_index + 1 + number.val)))
             ELSE IF next = "i"
             THEN LET e_index == find(encoded_value, "e")
                      digits == parse_i64(SubSeq(encoded_value, 2, e_index))
                  IN  IF e_index < 0 THEN DecodePanic
                      ELSE IF ~digits.ok THEN DecodePanic
                      ELSE Decode(e_index + 1, Number(digits.val))
             ELSE IF next = "l" THEN decode_list(Tail(encoded_value), <<>>, 1)
             ELSE IF next = "d" THEN decode_dict(Tail(encoded_value), Map_new, 1)
             ELSE DecodePanic

\* The loop of the 'l' branch, lines 364-374.
decode_list(remaining, items, len) ==
    IF remaining = <<>> THEN DecodePanic
    ELSE IF remaining[1] = "e" THEN Decode(len + 1, Array(items))
    ELSE LET next_item == decode_bencoded_value(remaining)
         IN  IF ~next_item.ok THEN DecodePanic
             ELSE decode_list(SubSeq(remaining, next_item.length + 1, Len(remaining)),
                              Append(items, next_item.value),
                              len + next_item.length)

\* The loop of the 'd' branch, lines 379-396.
decode_dict(remaining, dict, len) ==
    IF remaining = <<>> THEN DecodePanic
    ELSE IF remaining[1] = "e" THEN Decode(len + 1, Object(dict))
    ELSE LET next_key == decode_bencoded_value(remaining)
         IN  IF ~next_key.ok THEN DecodePanic
             ELSE IF next_key.value.t # "String" THEN DecodePanic
             ELSE LET rest == SubSeq(remaining, next_key.length + 1, Len(remaining))
                      next_value == decode_bencoded_value(rest)
                  IN  IF ~next_value.ok THEN DecodePanic
                      ELSE decode_dict(SubSeq(rest, next_value.length + 1, Len(rest)),
                                       insert(dict, next_key.value.v, next_value.value),
                                       len + next_key.length + next_value.length)

\* ------------------------------------- functions applied on their own
\* A second specification: each behaviour applies one function of the program
\* to one input and keeps what it returned; the connection is left alone.
mainvars ==
    <<overflow_checks, info, pc, err, conn, initiated, index, plength, begin, length,
      piece_data, inb, eof, out, sink, calls, frames, log, call_log, call_sink,
      last_recv>>

Applied(fn, arg, ret) == [fn |-> fn, arg |-> arg, ret |-> ret]

\* The metainfo blobs from_file is given: for each length and piece length, an
\* info dictionary with np whole digests and `more` bytes after them, the keys of
\* the outer dictionary in either order, and blobs that lack a key.
MaxDigests == 3

Digests(len, plen, np, more) ==
    [i \in 1..np |-> Sha1(PieceData(len, plen, i - 1))]
    \o (IF more = 0 THEN <<>> ELSE <<[n |-> more, of |-> <<>>]>>)

InfoDict(len, plen, chunks) ==
    <<<<"length", len>>, <<"name", "sample.txt">>, <<"piece length", plen>>,
      <<"pieces", chunks>>>>

Announce == <<"announce", "http://tracker.test/announce">>

MetaInfo(i) == <<Announce, <<"info", i>>>>

Sizes == {<<17, 10>>, <<20, 10>>, <<0, 10>>, <<49157, 32773>>}

InfoDicts ==
    {InfoDict(z[1], z[2], Digests(z[1], z[2], np, more)) :
        z \in Sizes, np \in 0..MaxDigests, more \in {0, 5}}

Blobs ==
    {MetaInfo(i) : i \in InfoDicts}
    \cup {<<<<"info", i>>, Announce>> : i \in InfoDicts}
    \cup {<<Announce>>, <<<<"info", InfoDict(17, 10, Digests(17, 10, 2, 0))>>>>,
          MetaInfo(Tail(InfoDict(17, 10, Digests(17, 10, 2, 0))))}

\* TorrentFile::from_file, the file already read.
from_file(blob) ==
    /\ call = NoCall
    /\ call' = Applied("from_file", blob, from_bytes(blob))
    /\ UNCHANGED mainvars

\* What decode_bencoded_value is given. The examples: "4:spam", "i-42e",
\* "l4:spam4:eggse" and "d3:cow3:moo4:spam4:eggse".
Ex_String == <<"4", ":", "s", "p", "a", "m">>

Ex_Integer == <<"i", "-", "4", "2", "e">>

Ex_List ==
    <<"l", "4", ":", "s", "p", "a", "m", "4", ":", "e", "g", "g", "s", "e">>

Ex_Dict ==
    <<"d", "3", ":", "c", "o", "w", "3", ":", "m", "o", "o", "4", ":", "s", "p", "a", "m", "4", ":", "e", "g", "g", "s", "e">>

Examples == {Ex_String, Ex_Integer, Ex_List, Ex_Dict}

\* Integers whose body is empty or is not an optional '-' and digits.
BadIntegers ==
    { <<"i", "e">>,
      <<"i", "-", "e">>,
      <<"i", "x", "e">>,
      <<"i", "4", "x", "e">>,
      <<"i", "4", "-", "e">>,
      <<"i", "-", "-", "4", "e">>,
      <<"i", "+", "5", "e">>,
      <<"i", " ", "5", "e">>,
      <<"i", "5">> }

\* Byte strings that declare more bytes than remain, or have no length.
ShortStrings ==
    { <<"5", ":", "s", "p", "a", "m">>,
      <<"1", ":">>,
      <<"2", ":", "a">>,
      <<"1", "0", ":", "s", "p", "a", "m">>,
      <<"4", "s", "p", "a", "m">>,
      <<"4", "x", ":", "s", "p", "a", "m">> }

\* Lists and dictionaries that end before their 'e'.
Unterminated ==
    { <<"l">>,
      <<"l", "4", ":", "s", "p", "a", "m">>,
      <<"l", "i", "1", "e">>,
      <<"l", "l", "4", ":", "s", "p", "a", "m", "e">>,
      <<"d">>,
      <<"d", "3", ":", "c", "o", "w">>,
      <<"d", "3", ":", "c", "o", "w", "3", ":", "m", "o", "o">>,
      <<"d", "3", ":", "c", "o", "w", "l", "i", "1", "e", "e">>,
      <<"l", "d", "3", ":", "c", "o", "w", "3", ":", "m", "o", "o", "e">> }

\* Dictionaries with a key that is not a byte string.
NonStringKeys ==
    { <<"d", "i", "1", "e", "i", "2", "e", "e">>,
      <<"d", "l", "e", "i", "1", "e", "e">>,
      <<"d", "3", ":", "c", "o", "w", "3", ":", "m", "o", "o", "i", "1", "e", "i", "2", "e", "e">>,
      <<"d", "d", "e", "i", "1", "e", "e">> }

\* Inputs that start no value.
Unhandled ==
    { <<"x">>,
      <<"e">>,
      <<":">>,
      <<"-", "1">> }

DecodeInputs ==
    Examples \cup {<<>>} \cup BadIntegers \cup ShortStrings \cup Unterminated
    \cup NonStringKeys \cup Unhandled

\* main, the "decode" command: decode_bencoded_value on the argument.
decode(e) ==
    /\ call = NoCall
    /\ call' = Applied("decode", e, decode_bencoded_value(e))
    /\ UNCHANGED mainvars

\* Well-formed input: the values below, a dictionary given as its pairs <<key,
\* value>> in key order, each with what it decodes to and its encoding: digits,
\* ':' and the bytes for a byte string, 'i', the decimal and 'e' for an integer,
\* 'l' or 'd', the members and 'e' for a list or a dictionary.
Pairs(ps) == [t |-> "Pairs", v |-> ps]

RECURSIVE ValueOf(_), PairsValue(_, _)
ValueOf(term) ==
    CASE term.t = "Array" -> Array([k \in 1..Len(term.v) |-> ValueOf(term.v[k])])
      [] term.t = "Pairs" -> Object(PairsValue(term.v, Map_new))
      [] OTHER -> term

PairsValue(ps, dict) ==
    IF ps = <<>> THEN dict
    ELSE PairsValue(Tail(ps), insert(dict, ps[1][1], ValueOf(ps[1][2])))

RECURSIVE Decimal(_)
Decimal(n) ==
    IF n < 10 THEN <<DigitSeq[n + 1]>> ELSE Decimal(n \div 10) \o <<DigitSeq[(n % 10) + 1]>>

RECURSIVE Bencode(_), BencodeAll(_), BencodePairs(_)
Bencode(term) ==
    CASE term.t = "String" -> Decimal(Len(term.v)) \o <<":">> \o term.v
      [] term.t = "Number" ->
           <<"i">> \o (IF term.v < 0 THEN <<"-">> \o Decimal(0 - term.v) ELSE Decimal(term.v))
           \o <<"e">>
      [] term.t = "Array" -> <<"l">> \o BencodeAll(term.v) \o <<"e">>
      [] OTHER -> <<"d">> \o BencodePairs(term.v) \o <<"e">>

BencodeAll(terms) ==
    IF terms = <<>> THEN <<>> ELSE Bencode(terms[1]) \o BencodeAll(Tail(terms))

BencodePairs(ps) ==
    IF ps = <<>> THEN <<>>
    ELSE Bencode(String(ps[1][1])) \o Bencode(ps[1][2]) \o BencodePairs(Tail(ps))

\* Byte strings that read like encoded values or like parts of them.
Texts ==
    { <<>>, <<"e">>, <<"i", "1", "e">>, <<"1", ":", "a">>, <<"s", "p", "a", "m">>,
      <<"l", "e", ":">> }

Atoms == {Number(0), Number(7), Number(0 - 42), Number(1024)} \cup {String(x) : x \in Texts}

Flat ==
    {Array(<<>>), Pairs(<<>>)}
    \cup {Array(<<a>>) : a \in Atoms}
    \cup {Array(<<a, b>>) : a, b \in Atoms}
    \cup {Pairs(<<<<k, a>>>>) : k \in Texts, a \in Atoms}
    \cup {Pairs(<<<<<<"c", "o", "w">>, a>>, <<<<"s", "p", "a", "m">>, b>>>>) : a, b \in Atoms}

Nested ==
    {Array(<<x, a>>) : x \in {Array(<<>>), Array(<<Number(0)>>), Pairs(<<>>),
                               Pairs(<<<<<<"a">>, Number(0)>>>>)},
                      a \in Atoms}
    \cup {Pairs(<<<<<<"k">>, x>>>>) : x \in {Array(<<String(<<"e">>)>>),
                                           Pairs(<<<<<<"e">>, Array(<<>>)>>>>)}}

Terms == Atoms \cup Flat \cup Nested

\* What may follow a value in its input.
Suffixes ==
    { <<>>, <<"e">>, <<":">>, <<"5">>, <<"i", "1", "e">>, <<"1", ":", "a", "e">> }

\* decode_bencoded_value on a value that has siblings behind it, as the loops of
\* lines 370, 385 and 389 call it, and on the value alone.
decode_sibling(term, s) ==
    /\ call = NoCall
    /\ call' = Applied("decode_sibling",
                       [term |-> term, e |-> Bencode(term), s |-> s],
                       [alone |-> decode_bencoded_value(Bencode(term)),
                        before |-> decode_bencoded_value(Bencode(term) \o s)])
    /\ UNCHANGED mainvars

\* ---------------------------------------- TrackerResponse::get_peers
\* An address is its four octets and its port.
SocketAddrV4(ip, port) == [ip |-> ip, port |-> port]

\* u16::from_le_bytes.
u16_from_le_bytes(b) == b[1] + b[2] * 256

\* u16::from_be_bytes.
u16_from_be_bytes(b) == b[1] * 256 + b[2]

\* &peers_bytes[from..], from counted from 0.
SliceFrom(bytes, from) == SubSeq(bytes, from + 1, Len(bytes))

\* One address for each whole 6 bytes of the buffer, in order; bytes after the
\* last whole entry are not read.
get_peers(peers_bytes) ==
    LET n_peers == Len(peers_bytes) \div 6
    IN  [k \in 1..n_peers |->
            LET i == k - 1
                p == SliceFrom(peers_bytes, i * 6)
            IN  SocketAddrV4(<<p[1], p[2], p[3], p[4]>>,
                             u16_from_be_bytes(<<p[5], p[6]>>))]

MaxPeers == 3

\* Entries of a compact peer buffer.
PeerEntries ==
    { <<127, 0, 0, 1, 26, 225>>, <<10, 0, 0, 2, 225, 26>>,
      <<192, 168, 1, 255, 0, 80>>, <<0, 0, 0, 0, 255, 255>> }

\* Bytes after the last whole entry.
PeerTails == { <<>>, <<7>>, <<1, 2, 3, 4, 5>> }

RECURSIVE Flatten(_)
Flatten(ss) == IF ss = <<>> THEN <<>> ELSE Head(ss) \o Flatten(Tail(ss))

PeerBuffers ==
    { Flatten(es) \o t :
        es \in UNION { [1..n -> PeerEntries] : n \in 0..MaxPeers },
        t \in PeerTails }

call_get_peers(peers_bytes) ==
    /\ call = NoCall
    /\ call' = Applied("get_peers", peers_bytes, get_peers(peers_bytes))
    /\ UNCHANGED mainvars

\* ------------------------------------------- TorrentFileInfo::hash
\* The info dictionaries whose identifiers are compared: two contents, one of
\* them also under another name, with a key that TorrentFileInfo has no field
\* for, and with its keys in another order.
HashInfos ==
    LET a == InfoDict(17, 10, Digests(17, 10, 2, 0))
        b == InfoDict(20, 10, Digests(20, 10, 2, 0))
    IN  { a, b,
          <<a[1], <<"name", "other.txt">>, a[3], a[4]>>,
          <<a[1], a[2], a[3], a[4], <<"private", 1>>>>,
          <<a[4], a[3], a[2], a[1]>> }

\* Each of them in a metainfo file, the outer keys in either order or with a
\* key more.
HashBlobs ==
    UNION { { MetaInfo(i), <<<<"info", i>>, Announce>>,
              <<Announce, <<"comment", "c">>, <<"info", i>>>> } : i \in HashInfos }

HashPanic == [n |-> 0, of |-> <<"panic">>]

\* The info command on a file: from_file, then info.hash().
hash_of_file(blob) ==
    LET r == from_bytes(blob)
    IN  IF r.ok THEN hash(r.file.info) ELSE HashPanic

\* Two files read and their identifiers computed.
call_hash(b1, b2) ==
    /\ call = NoCall
    /\ call' = Applied("hash", <<b1, b2>>, <<hash_of_file(b1), hash_of_file(b2)>>)
    /\ UNCHANGED mainvars

\* ------------------------------------------ send_message on its own
\* Values of the u32 fields of a Request: every byte position used.
U32s == {0, 1, 258, BLOCK_SIZE, 16777474}

\* The messages send_message may be given: every variant of PeerMessage.
Messages ==
    {Bitfield, Interested, Unchoke, Piece(1, BLOCK_SIZE, Run(7, 3))}
    \cup {Request(i, b, l) : i \in U32s, b \in U32s, l \in U32s}

call_send_message(message) ==
    /\ call = NoCall
    /\ call' = Applied("send_message", message, send_message(message))
    /\ UNCHANGED mainvars

\* --------------------------------------- main.rs: its own PeerConnection
\* PeerConnection::send_message of main.rs: the chunks handed to stream.write.
main_send_message(message) ==
    CASE message.kind = "Interested" ->
           [panic |-> FALSE, writes |-> <<Bytes(<<2>>)>>]
      [] message.kind = "Request" ->
           [panic |-> FALSE,
            writes |-> <<Bytes(<<6>>), to_be_bytes(message.index),
                         to_be_bytes(message.begin), to_be_bytes(message.length)>>]
      [] OTHER -> [panic |-> TRUE, writes |-> <<>>]

\* The match of main.rs on the id: an id it does not know is a panic.
main_match(id, payload, rest) ==
    CASE id = 5 -> Received(Bitfield, rest)
      [] id = 2 -> Received(Interested, rest)
      [] id = 1 -> Received(Unchoke, rest)
      [] id = 6 ->
           IF BLen(payload) < 12 THEN OutOfRange
           ELSE Received(Request(u32_from_bytes(payload),
                                 u32_from_bytes(BDrop(payload, 4)),
                                 u32_from_bytes(BDrop(payload, 8))), rest)
      [] id = 7 ->
           IF BLen(payload) < 8 THEN OutOfRange
           ELSE Received(Piece(u32_from_bytes(payload),
                               u32_from_bytes(BDrop(payload, 4)),
                               BDrop(payload, 8)), rest)
      [] OTHER -> OutOfRange

\* PeerConnection::receive_message of main.rs on the bytes `stream`, after which
\* the stream ends: a header of 5 bytes, the length and the id, then a payload
\* of `length - 5` bytes. `length - 5` is a u32 subtraction: below 5 it panics
\* when the build checks overflow, and otherwise wraps to more bytes than the
\* stream holds.
main_receive_message(stream, checks) ==
    IF BLen(stream) < 5 THEN Starved(TRUE)
    ELSE LET len == u32_from_bytes(BTake(stream, 5))
             id == BAt(stream, 4)
             s1 == BDrop(stream, 5)
         IN  IF len < 5 THEN (IF checks THEN OutOfRange ELSE Starved(TRUE))
             ELSE IF BLen(s1) < len - 5 THEN Starved(TRUE)
             ELSE main_match(id, BTake(s1, len - 5), BDrop(s1, len - 5))

\* Frames as a peer sends them: Unchoke, Interested, Bitfield with a bitfield of
\* one byte and of four, a Request, and Piece with a block of 3 bytes and of
\* BLOCK_SIZE bytes.
MainFrames ==
    { Frame(1, <<>>), Frame(2, <<>>), Frame(5, Bytes(<<192>>)), Frame(5, Run(255, 4)),
      Frame(6, BCat(BCat(to_be_bytes(1), to_be_bytes(BLOCK_SIZE)), to_be_bytes(258))),
      PieceFrame(0, 0, Run(7, 3)),
      PieceFrame(1, BLOCK_SIZE, Run(9, BLOCK_SIZE)) }

\* The message a frame carries.
MessageOf(fr) ==
    CASE fr.id = 1 -> Unchoke
      [] fr.id = 2 -> Interested
      [] fr.id = 5 -> Bitfield
      [] fr.id = 6 -> Request(u32_from_bytes(fr.payload),
                              u32_from_bytes(BDrop(fr.payload, 4)),
                              u32_from_bytes(BDrop(fr.payload, 8)))
      [] fr.id = 7 -> Piece(u32_from_bytes(fr.payload),
                            u32_from_bytes(BDrop(fr.payload, 4)),
                            BDrop(fr.payload, 8))

call_main_send_message(message) ==
    /\ call = NoCall
    /\ call' = Applied("main_send_message", message, main_send_message(message))
    /\ UNCHANGED mainvars

\* receive_message of main.rs on a stream that holds the frame `first` and the
\* frames `then`.
call_main_receive_message(first, then, checks) ==
    /\ call = NoCall
    /\ LET stream == EncodeAll(<<first>> \o then)
       IN  call' = Applied("main_receive_message",
                           [stream |-> stream, first |-> first, checks |-> checks],
                           main_receive_message(stream, checks))
    /\ UNCHANGED mainvars

NextCalls ==
    \/ \E blob \in Blobs : from_file(blob)
    \/ \E e \in DecodeInputs : decode(e)
    \/ \E term \in Terms, s \in Suffixes : decode_sibling(term, s)
    \/ \E peers_bytes \in PeerBuffers : call_get_peers(peers_bytes)
    \/ \E b1 \in HashBlobs, b2 \in HashBlobs : call_hash(b1, b2)
    \/ \E message \in Messages : call_send_message(message)
    \/ \E message \in Messages : call_main_send_message(message)
    \/ \E first \in MainFrames, then \in {<<>>} \cup {<<f>> : f \in MainFrames},
          checks \in BOOLEAN :
          call_main_receive_message(first, then, checks)

SpecCalls == Init /\ [][NextCalls]_vars

\* ------------------------------------------------------------- histories
\* What the current call of download_piece (the last one, once it has ended) has
\* sent and received, the Request messages among it, and what it has written.
CallLog == SubSeq(log, call_log + 1, Len(log))

IsRequestSent(e) == e.dir = "send" /\ e.msg.kind = "Request"

CallRequests == SelectSeq(CallLog, IsRequestSent)

CallWritten == BDrop(sink, call_sink)

Positions(e) == {k \in 1..Len(log) : log[k] = e}

RECURSIVE SumLengths(_)
SumLengths(rs) == IF rs = <<>> THEN 0 ELSE Head(rs).msg.length + SumLengths(Tail(rs))

\* The ids receive_message knows, and the one each wait of download_piece wants.
Recognized == {1, 2, 5, 6, 7}

RequiredId(at) == CASE at = "bitfield" -> 5 [] at = "unchoke" -> 1 [] OTHER -> 7

\* The call of download_piece went past the initial exchange and has its piece
\* length.
PastStart == pc = "piece" \/ (pc = "idle" /\ calls > 0) \/ err \in {"integrity", "unwrap"}

\* ------------------------------------------------------------------ C1
\* C1: a call of download_piece writes to the sink only after every block of the
\* piece has arrived and the SHA-1 digest of the assembled buffer equals the
\* digest the descriptor holds for that index; what it writes is then exactly the
\* assembled buffer. A call that waits or that has ended in a failure
\* (transport, protocol or digest) has written nothing.
C1_WriteOnlyVerified ==
    /\ CallWritten # <<>> =>
         /\ pc = "idle"
         /\ index < Len(pieces(info))
         /\ Sha1(piece_data) = pieces(info)[index + 1]
         /\ CallWritten = piece_data
         /\ BLen(piece_data) = begin
         /\ begin >= plength
         /\ SumLengths(CallRequests) = begin
    /\ pc \in Waiting \cup {"panicked"} => CallWritten = <<>>

\* A second call ends in a digest failure after the first call has written its
\* piece: the sink holds the first piece and nothing of the second.
C1_Witness ==
    /\ calls = 2
    /\ pc = "panicked"
    /\ err = "integrity"
    /\ call_sink > 0
    /\ BLen(sink) = call_sink

\* ------------------------------------------------------------------ C2
\* C2: every Request the connection has sent comes after a Bitfield received,
\* an Interested sent after that, and an Unchoke received after that.
C2_RequestAfterExchange ==
    \A k \in 1..Len(log) :
        IsRequestSent(log[k]) =>
            \E a \in Positions(Recv(Bitfield)) :
            \E b \in Positions(Sent(Interested)) :
            \E c \in Positions(Recv(Unchoke)) : a < b /\ b < c /\ c < k

\* A first Request is out, right after the exchange.
C2_Witness ==
    /\ pc = "piece"
    /\ calls = 1
    /\ Len(CallRequests) = 1
    /\ Len(log) = 4

\* ------------------------------------------------------------------ C3
InterestedSent(lg) == Cardinality({k \in 1..Len(lg) : lg[k] = Sent(Interested)})

\* C3: a connection that is Ready stays Ready; over its whole life it sends at
\* most one Interested; a call made when it is Ready does not wait for a
\* Bitfield or an Unchoke: it starts with a Request, if with anything.
C3_ReadyForLife ==
    [][/\ initiated => initiated'
       /\ InterestedSent(log') <= 1
       /\ (initiated /\ calls' # calls) =>
             /\ pc' \notin {"bitfield", "unchoke"}
             /\ log' # log => IsRequestSent(log'[Len(log) + 1])]_vars

\* A second call on a Ready connection has sent its first Request, and the log
\* still holds the one Interested of the first call.
C3_Witness ==
    /\ calls = 2
    /\ initiated
    /\ pc = "piece"
    /\ Len(CallLog) = 1
    /\ InterestedSent(log) = 1

\* ------------------------------------------------------------------ C4
\* C4: the piece length a call computes for an index below the piece count is
\* the descriptor's piece length, except for the last piece when the total
\* length is not a multiple of the piece length: that one is the remainder. When
\* the total length is a multiple, the last piece has the full piece length.
C4_PieceLengthRule ==
    (PastStart /\ index < n_pieces(info)) =>
        plength = IF index = n_pieces(info) - 1 /\ info.length % info.plength # 0
                  THEN info.length % info.plength
                  ELSE info.plength

\* The last piece of a content whose length is a multiple of the piece length:
\* the call computed 0 for it and returned with nothing requested or written.
C4_Witness ==
    /\ info.length % info.plength = 0
    /\ n_pieces(info) > 0
    /\ index = n_pieces(info) - 1
    /\ pc = "idle"
    /\ calls > 0
    /\ plength = 0
    /\ CallRequests = <<>>
    /\ CallWritten = <<>>

\* ------------------------------------------------------------------ C5
\* C5: a call with an index at or beyond the piece count is a no-op and not an
\* error, the empty digest buffer included: the piece length it computes is 0,
\* it sends no Request, writes nothing, and returns.
C5_BeyondCountNoOp ==
    (calls > 0 /\ index >= n_pieces(info)) =>
        /\ CallRequests = <<>>
        /\ CallWritten = <<>>
        /\ pc # "piece"
        /\ err \notin {"overflow", "unwrap", "integrity"}
        /\ PastStart => plength = 0

\* With an empty digest buffer the call for index 0 asks a peer for a block.
C5_Witness ==
    /\ n_pieces(info) = 0
    /\ index = 0
    /\ overflow_checks = "off"
    /\ pc = "piece"
    /\ plength = info.plength
    /\ Len(CallRequests) = 1

\* ------------------------------------------------------------------ C6
WrongId(lr) == lr.at \in Waiting /\ lr.frame.id >= 0 /\ lr.frame.id # RequiredId(lr.at)

\* C6 as stated: where download_piece waits for a specific message, a message
\* with any other id ends the download in a failure.
C6_AnyOtherIdFatal == WrongId(last_recv) => pc = "panicked"

\* C6, amended: where download_piece waits for a specific message, a message
\* with any other id that receive_message knows (1, 2, 5, 6, 7) ends the
\* download in a protocol failure, with no message sent and nothing written
\* from then on.
C6_OtherKnownIdFatal ==
    [][(WrongId(last_recv') /\ last_recv'.frame.id \in Recognized) =>
          /\ pc' = "panicked"
          /\ err' = "protocol"
          /\ out' = out
          /\ sink' = sink
          /\ InterestedSent(log') = InterestedSent(log)
          /\ SelectSeq(log', IsRequestSent) = SelectSeq(log, IsRequestSent)]_vars

\* An Unchoke arrived where a Piece was due, after the first block of the piece.
C6_Witness ==
    /\ pc = "panicked"
    /\ last_recv.at = "piece"
    /\ last_recv.frame.id = 1
    /\ last_recv.status = "msg"
    /\ begin > 0

\* ------------------------------------------------------------------ C7
\* C7: a step in which a wait of download_piece reads a keepalive changes
\* nothing of the client but the position in the stream, which moves past the
\* keepalive and no further: no message sent, the protocol state, the piece
\* under assembly, the sink and the result as they were.
C7_KeepAliveTransparent ==
    [][(pc \in Waiting /\ last_recv'.frame = KeepAlive) =>
          /\ pc' = pc
          /\ UNCHANGED <<err, initiated, index, plength, begin, length, piece_data, out,
                         sink, log, calls>>
          /\ inb' = EncodeAll(frames')
          /\ last_recv'.status = "again"]_vars

\* A keepalive was read while the second block of a piece is awaited; the call
\* still waits for it.
C7_Witness ==
    /\ pc = "piece"
    /\ begin > 0
    /\ last_recv.at = "piece"
    /\ last_recv.frame = KeepAlive
    /\ last_recv.status = "again"

\* ------------------------------------------------------------------ C8
\* C8: a pass of receive_message over a message with an id it does not know
\* consumes the whole message, prefix, id and payload, does not fail, and leaves
\* the wait where it was; every pass that returns a message leaves the stream at
\* the next message boundary and returns a message with a known id.
C8_UnknownIdSkipped ==
    [][/\ (pc \in Waiting /\ last_recv'.frame.id >= 0
              /\ last_recv'.frame.id \notin Recognized) =>
             /\ last_recv'.status = "again"
             /\ pc' = pc
             /\ err' = err
             /\ log' = log
             /\ inb' = EncodeAll(frames')
       /\ (pc \in Waiting /\ last_recv'.status = "msg") =>
             /\ last_recv'.frame.id \in Recognized
             /\ inb' = EncodeAll(frames')]_vars

\* An extension message was read over while an Unchoke is awaited, and the
\* stream stands at the Unchoke that came behind it.
C8_Witness ==
    /\ pc = "unchoke"
    /\ last_recv.frame = Extension
    /\ last_recv.status = "again"
    /\ inb = Encode(Frame(1, <<>>))

\* ------------------------------------------------------------------ C9
\* C9: a connection exists only if the content identifier the remote peer sent
\* in its handshake equals the local descriptor's.
C9_HandshakeHashChecked == conn # NoConn => conn.info_hash = hash(info)

\* A download runs on a connection whose peer answered with another identifier.
C9_Witness ==
    /\ conn # NoConn
    /\ conn.info_hash # hash(info)
    /\ Len(CallRequests) > 0

\* ----------------------------------------------------------------- C10
\* C10: for a piece of L > 0 bytes the k-th Request of a call (k from 0) has
\* offset k * 16384 and a length between 1 and 16384: 16384 unless the block is
\* the last one, whose length is what remains of the piece; and once the call is
\* through the block loop the lengths add up to L. The piece lengths of Infos are
\* far below 2^32 - 16384, the range in which begin + BLOCK_SIZE (line 166)
\* stays within u32.
C10_RequestLayout ==
    LET rs == CallRequests
    IN  /\ \A k \in 1..Len(rs) :
             /\ rs[k].msg.index = index
             /\ rs[k].msg.begin = (k - 1) * BLOCK_SIZE
             /\ rs[k].msg.length \in 1..BLOCK_SIZE
             /\ rs[k].msg.begin + rs[k].msg.length <= plength
             /\ rs[k].msg.begin + rs[k].msg.length < plength =>
                    rs[k].msg.length = BLOCK_SIZE
        /\ (PastStart /\ pc # "piece") => SumLengths(rs) = plength

\* A piece of two full blocks and a last block of 5 bytes, downloaded and written.
C10_Witness ==
    /\ pc = "idle"
    /\ plength = 2 * BLOCK_SIZE + 5
    /\ Len(CallRequests) = 3
    /\ CallRequests[3].msg.length = 5
    /\ CallWritten # <<>>

\* ----------------------------------------------------------------- C11
\* Where in the log a Request was sent, and where a Piece was accepted: returned
\* by receive_message to the wait that follows a Request (a Piece returned to
\* the wait for Bitfield or Unchoke ends the call and is the last of the log).
RequestPositions == {k \in 1..Len(log) : IsRequestSent(log[k])}

AcceptedPositions ==
    {k \in 1..Len(log) :
        /\ log[k].dir = "recv"
        /\ log[k].msg.kind = "Piece"
        /\ (k = Len(log) /\ pc = "panicked") => last_recv.at = "piece"}

\* C11: over the whole life of a connection the Requests sent and the Pieces
\* accepted alternate, Request first: between two Requests a Piece was accepted,
\* between two accepted Pieces a Request was sent, and at most one Request is
\* without its Piece.
C11_OneOutstanding ==
    /\ \A a, b \in RequestPositions :
          a < b => \E c \in AcceptedPositions : a < c /\ c < b
    /\ \A a, b \in AcceptedPositions :
          a < b => \E c \in RequestPositions : a < c /\ c < b
    /\ \A c \in AcceptedPositions : \E a \in RequestPositions : a < c
    /\ Cardinality(RequestPositions) - Cardinality(AcceptedPositions) \in {0, 1}
    /\ pc = "piece" <=> (pc \notin {"panicked", "start"}
                         /\ Cardinality(RequestPositions) # Cardinality(AcceptedPositions))

\* The second call on a connection waits for the Piece of its second Request.
C11_Witness ==
    /\ calls = 2
    /\ pc = "piece"
    /\ Len(CallRequests) = 2
    /\ Cardinality(RequestPositions) = Cardinality(AcceptedPositions) + 1
    /\ Cardinality(AcceptedPositions) >= 2

\* ----------------------------------------------------------------- C12
\* C12: every Piece accepted answers the Request sent just before it with the
\* same piece index and the same byte offset; the block of a Piece for another
\* index or offset is never appended to the piece buffer.
C12_OnlyMatchingAppended ==
    \A k \in AcceptedPositions :
        /\ k > 1
        /\ IsRequestSent(log[k - 1])
        /\ log[k].msg.index = log[k - 1].msg.index
        /\ log[k].msg.begin = log[k - 1].msg.begin

\* A piece went to the sink whose last block came from a Piece with another
\* offset than the Request it followed.
C12_Witness ==
    /\ pc = "idle"
    /\ CallWritten # <<>>
    /\ last_recv.msg.kind = "Piece"
    /\ last_recv.msg.index = index
    /\ last_recv.msg.begin # begin - length

\* ----------------------------------------------------------------- C13
\* C13: from_file accepts a metainfo blob only if the length of its piece-digest
\* buffer is ceil(length / piece length) * 20, so that n_pieces() of every
\* descriptor it returns is ceil(length / piece length).
C13_ParseChecksDigestCount ==
    (call.fn = "from_file" /\ call.ret.ok) =>
        LET i == call.ret.file.info
        IN  /\ pieces_len(i.pieces_data) = PieceCount(i.length, i.plength) * DIGEST_LEN
            /\ n_pieces(i) = PieceCount(i.length, i.plength)

\* from_file returned a descriptor of 20 bytes in pieces of 10 with one digest.
C13_Witness ==
    /\ call.fn = "from_file"
    /\ call.ret.ok
    /\ call.ret.file.info.length = 20
    /\ call.ret.file.info.plength = 10
    /\ pieces_len(call.ret.file.info.pieces_data) = DIGEST_LEN
    /\ n_pieces(call.ret.file.info) = 1

\* ----------------------------------------------------------------- C14
\* C14 as stated: "4:spam" decodes to the byte string "spam" with 6 bytes
\* consumed, "i-42e" to the integer -42 with 5, "l4:spam4:eggse" to the list
\* ["spam", "eggs"] with 16, and "d3:cow3:moo4:spam4:eggse" to the dictionary
\* {cow: "moo", spam: "eggs"} with 24.
C14_Examples16 ==
    call.fn = "decode" =>
        /\ call.arg = Ex_String => call.ret = Decode(6, String(<<"s", "p", "a", "m">>))
        /\ call.arg = Ex_Integer => call.ret = Decode(5, Number(0 - 42))
        /\ call.arg = Ex_List =>
              call.ret = Decode(16, Array(<<String(<<"s", "p", "a", "m">>), String(<<"e", "g", "g", "s">>)>>))
        /\ call.arg = Ex_Dict =>
              call.ret = Decode(24, Object(insert(insert(Map_new, <<"c", "o", "w">>, String(<<"m", "o", "o">>)),
                                                  <<"s", "p", "a", "m">>, String(<<"e", "g", "g", "s">>))))

\* C14, amended: the same, the list "l4:spam4:eggse" with the 14 bytes it has.
C14_Examples ==
    call.fn = "decode" =>
        /\ call.arg = Ex_String => call.ret = Decode(6, String(<<"s", "p", "a", "m">>))
        /\ call.arg = Ex_Integer => call.ret = Decode(5, Number(0 - 42))
        /\ call.arg = Ex_List =>
              call.ret = Decode(Len(Ex_List),
                                Array(<<String(<<"s", "p", "a", "m">>), String(<<"e", "g", "g", "s">>)>>))
        /\ call.arg = Ex_Dict =>
              call.ret = Decode(Len(Ex_Dict),
                                Object(insert(insert(Map_new, <<"c", "o", "w">>, String(<<"m", "o", "o">>)),
                                              <<"s", "p", "a", "m">>, String(<<"e", "g", "g", "s">>))))
        /\ Len(Ex_List) = 14
        /\ Len(Ex_Dict) = 24

\* The list example decoded: two items, 14 bytes consumed.
C14_Witness ==
    /\ call.fn = "decode"
    /\ call.arg = Ex_List
    /\ call.ret.ok
    /\ call.ret.length = 14
    /\ Len(call.ret.value.v) = 2

\* ----------------------------------------------------------------- C15
\* C15: for a well-formed encoding e of a value and any suffix s,
\* decode_bencoded_value(e) is the value with Len(e) bytes consumed, and
\* decode_bencoded_value(e \o s) is the same value with the same length: the
\* suffix is where the next sibling starts.
C15_PrefixDecoding ==
    call.fn = "decode_sibling" =>
        /\ call.ret.alone = Decode(Len(call.arg.e), ValueOf(call.arg.term))
        /\ call.ret.before = call.ret.alone

\* A dictionary inside a list, decoded with an encoded integer behind it.
C15_Witness ==
    /\ call.fn = "decode_sibling"
    /\ call.arg.term.t = "Array"
    /\ Len(call.arg.term.v) = 2
    /\ call.arg.term.v[1].t = "Pairs"
    /\ call.arg.term.v[1].v # <<>>
    /\ call.arg.s = <<"i", "1", "e">>
    /\ call.ret.before.ok
    /\ call.ret.before.length = Len(call.arg.e)
    /\ call.ret.before.value.v[1].t = "Object"

\* ----------------------------------------------------------------- C16
Malformed == BadIntegers \cup ShortStrings \cup Unterminated \cup NonStringKeys

\* C16: decode_bencoded_value ends in an error, with no value, on an integer
\* whose body is empty or holds anything but an optional '-' and digits, on a
\* byte string that declares more bytes than remain, on a list or dictionary
\* without its 'e', and on a dictionary with a key that is not a byte string.
C16_MalformedRejected ==
    (call.fn = "decode" /\ call.arg \in Malformed) => ~call.ret.ok

\* "i+5e" decoded to the integer 5.
C16_Witness ==
    /\ call.fn = "decode"
    /\ call.arg = <<"i", "+", "5", "e">>
    /\ call.arg \in BadIntegers
    /\ call.ret.ok
    /\ call.ret.value = Number(5)
    /\ call.ret.length = 4

\* All of the malformed inputs but that one end in an error.
C16_OthersRejected ==
    (call.fn = "decode" /\ call.arg \in Malformed \ {<<"i", "+", "5", "e">>}) => ~call.ret.ok

\* ----------------------------------------------------------------- C17
\* C17: get_peers turns a compact buffer of 6*k bytes into exactly k
\* addresses in input order, the i-th with bytes 6i..6i+3 as its IPv4 octets
\* and bytes 6i+4, 6i+5 as its big-endian port; [127,0,0,1,0x1A,0xE1] gives
\* 127.0.0.1 port 6881 and a 12-byte buffer gives exactly two addresses.
C17_CompactPeers ==
    (call.fn = "get_peers" /\ Len(call.arg) % 6 = 0) =>
        /\ Len(call.ret) = Len(call.arg) \div 6
        /\ \A i \in 0..(Len(call.ret) - 1) :
              /\ call.ret[i + 1].ip = SubSeq(call.arg, 6 * i + 1, 6 * i + 4)
              /\ call.ret[i + 1].port =
                    call.arg[6 * i + 5] * 256 + call.arg[6 * i + 6]
        /\ call.arg = <<127, 0, 0, 1, 26, 225>> =>
              call.ret = << [ip |-> <<127, 0, 0, 1>>, port |-> 6881] >>
        /\ Len(call.arg) = 12 => Len(call.ret) = 2

\* A 12-byte buffer decoded to two different addresses, the first of them
\* 127.0.0.1:6881.
C17_Witness ==
    /\ call.fn = "get_peers"
    /\ Len(call.arg) = 12
    /\ Len(call.ret) = 2
    /\ call.ret[1] = [ip |-> <<127, 0, 0, 1>>, port |-> 6881]
    /\ call.ret[2] = [ip |-> <<192, 168, 1, 255>>, port |-> 80]

\* ----------------------------------------------------------------- C18
\* The pairs of a dictionary of the input, whatever their order.
PairSet(d) == {d[i] : i \in 1..Len(d)}

Permuted(d1, d2) == Len(d1) = Len(d2) /\ PairSet(d1) = PairSet(d2)

\* C18: the identifier is the same for two byte-identical metainfo inputs, the
\* same when the keys of the outer dictionary come in another order, and
\* different whenever the serialized info dictionaries of the two inputs differ.
C18_HashTracksInfoBytes ==
    call.fn = "hash" =>
        LET b1 == call.arg[1]
            b2 == call.arg[2]
        IN  /\ b1 = b2 => call.ret[1] = call.ret[2]
            /\ Permuted(b1, b2) => call.ret[1] = call.ret[2]
            /\ Get(b1, "info") # Get(b2, "info") => call.ret[1] # call.ret[2]

\* Two files whose info dictionaries differ by the key "private" got the same
\* identifier.
C18_Witness ==
    /\ call.fn = "hash"
    /\ Has(Get(call.arg[1], "info"), "private")
    /\ ~Has(Get(call.arg[2], "info"), "private")
    /\ call.ret[1] # HashPanic
    /\ call.ret[1] = call.ret[2]

\* What the identifier does follow: the four fields of TorrentFileInfo.
C18_HashOfFields ==
    call.fn = "hash" =>
        LET i1 == Get(call.arg[1], "info")
            i2 == Get(call.arg[2], "info")
        IN  (call.ret[1] = call.ret[2]) <=>
                \A k \in {"length", "name", "piece length", "pieces"} :
                    Get(i1, k) = Get(i2, k)

\* ----------------------------------------------------------------- C19
\* The bytes the stream gets from a sequence of writes.
RECURSIVE Wire(_)
Wire(writes) == IF writes = <<>> THEN <<>> ELSE BCat(Head(writes), Wire(Tail(writes)))

\* The big-endian number in the 4 bytes of w from position i.
BigEndianAt(w, i) ==
    ((BAt(w, i) * 256 + BAt(w, i + 1)) * 256 + BAt(w, i + 2)) * 256 + BAt(w, i + 3)

\* C19: what send_message writes is a 4-byte big-endian length, a 1-byte id and
\* length - 1 bytes of payload: for Interested the 5 bytes 00 00 00 01 02, for
\* Request 17 bytes, length 13, id 6, then index, begin and length as 4-byte
\* big-endian numbers in that order; given any other message it panics and
\* writes nothing.
C19_Framing ==
    call.fn = "send_message" =>
        LET m == call.arg
            w == Wire(call.ret.writes)
        IN  /\ ~call.ret.panic =>
                  /\ BLen(w) >= 5
                  /\ BigEndianAt(w, 0) = BLen(w) - 4
            /\ m.kind = "Interested" =>
                  /\ ~call.ret.panic
                  /\ w = Bytes(<<0, 0, 0, 1, 2>>)
            /\ m.kind = "Request" =>
                  /\ ~call.ret.panic
                  /\ BLen(w) = 17
                  /\ BTake(w, 5) = Bytes(<<0, 0, 0, 13, 6>>)
                  /\ BigEndianAt(w, 5) = m.index
                  /\ BigEndianAt(w, 9) = m.begin
                  /\ BigEndianAt(w, 13) = m.length
            /\ m.kind \notin {"Interested", "Request"} =>
                  /\ call.ret.panic
                  /\ call.ret.writes = <<>>

\* A Request whose three fields differ, each with more than one byte set.
C19_Witness ==
    /\ call.fn = "send_message"
    /\ call.arg = Request(258, BLOCK_SIZE, 16777474)
    /\ ~call.ret.panic
    /\ BLen(Wire(call.ret.writes)) = 17

\* ----------------------------------------------------------------- C20
\* The Pieces the current call accepted: each follows the Request it answers.
CallAccepted == {k \in AcceptedPositions : k > call_log + 1}

\* C20 as stated, first part: a call that wrote to the sink accepted no Piece
\* whose block length differs from the length of the Request it answered.
C20_BlockLengthChecked ==
    CallWritten # <<>> =>
        \A k \in CallAccepted :
            BLen(log[k].msg.block) = log[k - 1].msg.length

\* C20: whenever download_piece has written to the sink, what it wrote is
\* nth_plength(index) bytes long, whatever Pieces the peer sent (SHA-1 without
\* collisions; the digests of the descriptor are those of the pieces of the
\* content). The length of a block is not itself compared with the length
\* requested.
C20_WrittenIsPieceLength ==
    CallWritten # <<>> =>
        /\ index < n_pieces(info)
        /\ BLen(CallWritten) = nth_plength(info, index, TRUE).val
        /\ BLen(CallWritten) = BLen(pieces(info)[index + 1].of)

\* A piece went to the sink that was assembled from a first block one byte
\* longer than requested and a second block one byte shorter.
C20_Witness ==
    /\ pc = "idle"
    /\ CallWritten # <<>>
    /\ \E j \in CallAccepted, k \in CallAccepted :
          /\ j < k
          /\ BLen(log[j].msg.block) = log[j - 1].msg.length + 1
          /\ BLen(log[k].msg.block) = log[k - 1].msg.length - 1

\* ----------------------------------------------------------------- C21
\* The whole content: its pieces 0 .. n - 1 one after the other.
RECURSIVE Content(_, _, _)
Content(len, plen, n) ==
    IF n = 0 THEN <<>>
    ELSE BCat(Content(len, plen, n - 1), PieceData(len, plen, n - 1))

Whole == Content(info.length, info.plength, PieceCount(info.length, info.plength))

\* The peer answered every Request so far with the block asked for.
HonestPeer ==
    \A k \in 1..Len(log) :
        (log[k].dir = "recv" /\ log[k].msg.kind = "Piece") =>
            /\ k > 1
            /\ IsRequestSent(log[k - 1])
            /\ LET r == log[k - 1].msg
               IN  log[k].msg = Piece(r.index, r.begin, TrueBytes(r.index, r.begin, r.length))

\* The calls made so far were for the indices 0, 1, ..., piece_count - 1 in that
\* order, and the last of them has returned. A call for an index below
\* piece_count - 1 sends a Request with its index, so the Requests of the earlier
\* calls show their indices.
CalledInOrder ==
    LET n == PieceCount(info.length, info.plength)
        earlier == SelectSeq(SubSeq(log, 1, call_log), IsRequestSent)
    IN  /\ pc = "idle"
        /\ n_pieces(info) = n
        /\ calls = n
        /\ index = n - 1
        /\ \A i \in 0..(n - 2) : \E k \in 1..Len(earlier) : earlier[k].msg.index = i
        /\ \A k \in 1..Len(earlier) : earlier[k].msg.index \in 0..(n - 2)
        /\ \A j \in 1..Len(earlier), k \in 1..Len(earlier) :
              j < k => earlier[j].msg.index <= earlier[k].msg.index

\* C21: once download_piece has been called on one connection for the indices
\* 0, 1, ..., piece_count - 1 in order, against a peer that answers every
\* Request with the block asked for, the sink holds the whole content, piece
\* after piece: exactly `length` bytes, for every descriptor with length > 0.
C21_SequentialDownloadComplete ==
    (info.length > 0 /\ CalledInOrder /\ HonestPeer) =>
        /\ sink = Whole
        /\ BLen(sink) = info.length

\* 20 bytes in pieces of 10: both calls returned and the sink holds piece 0 only.
C21_Witness ==
    /\ info.length = 20
    /\ info.plength = 10
    /\ CalledInOrder
    /\ HonestPeer
    /\ sink = PieceData(20, 10, 0)
    /\ BLen(sink) = 10

\* The same holds when the length is not a multiple of the piece length.
C21_CompleteUnlessMultiple ==
    (info.length > 0 /\ info.length % info.plength # 0 /\ CalledInOrder /\ HonestPeer) =>
        /\ sink = Whole
        /\ BLen(sink) = info.length

\* 49157 bytes in pieces of 32773, downloaded whole in four blocks.
C21_WholeReached ==
    /\ info.length = 49157
    /\ CalledInOrder
    /\ HonestPeer
    /\ BLen(sink) = 49157

\* ----------------------------------------------------------------- C22
Blocks(L) == (L + BLOCK_SIZE - 1) \div BLOCK_SIZE

\* C22: with a peer that in the end answers each Request with a Piece message,
\* after finitely many keepalives and unrecognized messages, a call of
\* download_piece that waits for a block gets out of the block loop; when it is
\* out it has sent exactly ceil(L / 16384) Requests for its piece of L bytes;
\* while it waits begin is below L and is the offset of the block waited for;
\* and begin grows with every Piece taken and never goes beyond L. As for C10,
\* the piece lengths of Infos are far below 2^32 - 16384, the range in which
\* begin + BLOCK_SIZE (line 166) stays within u32.
C22_LoopTerminates ==
    /\ [](pc = "piece" =>
            /\ begin < plength
            /\ begin + length <= plength
            /\ Len(CallRequests) = begin \div BLOCK_SIZE + 1
            /\ Len(CallRequests) <= Blocks(plength))
    /\ []((PastStart /\ pc # "piece") => Len(CallRequests) = Blocks(plength))
    /\ [][(pc = "piece" /\ calls' = calls) =>
            /\ begin' >= begin
            /\ begin' <= plength
            /\ (log' # log /\ pc' # "panicked") => begin' > begin]_vars
    /\ (pc = "piece" ~> pc # "piece")

\* A call on a Ready connection for a piece of 32773 bytes has returned after
\* three Requests, each answered by a Piece.
C22_Witness ==
    /\ calls = 2
    /\ initiated
    /\ pc = "idle"
    /\ plength = 32773
    /\ Len(CallLog) = 6
    /\ Len(CallRequests) = Blocks(32773)
    /\ begin = plength

\* ----------------------------------------------------------------- C23
\* C23: the PeerConnection of main.rs frames messages as
\* [4-byte big-endian length][id][payload]: its send_message writes the length
\* before the id of Interested and of Request, and its receive_message, given a
\* message with length prefix L, reads the id and L - 1 bytes of payload and has
\* then consumed 4 + L bytes.
C23_MainFraming ==
    /\ (call.fn = "main_send_message" /\ call.arg.kind \in {"Interested", "Request"}) =>
          LET w == Wire(call.ret.writes)
          IN  /\ ~call.ret.panic
              /\ BLen(w) >= 5
              /\ BigEndianAt(w, 0) = BLen(w) - 4
              /\ BAt(w, 4) = IF call.arg.kind = "Interested" THEN 2 ELSE 6
    /\ call.fn = "main_receive_message" =>
          LET L == 1 + BLen(call.arg.first.payload)
          IN  /\ call.ret.status = "msg"
              /\ call.ret.msg = MessageOf(call.arg.first)
              /\ BLen(call.arg.stream) - BLen(call.ret.rest) = 4 + L

\* receive_message of main.rs, given a Piece message with a block of BLOCK_SIZE
\* bytes (length prefix BLOCK_SIZE + 9) and another frame after it, returned a
\* Piece with a block 4 bytes short and left the last 4 bytes of the message in
\* the stream.
C23_Witness ==
    /\ call.fn = "main_receive_message"
    /\ call.arg.first = PieceFrame(1, BLOCK_SIZE, Run(9, BLOCK_SIZE))
    /\ BLen(call.arg.stream) > BLOCK_SIZE + 13
    /\ call.ret.status = "msg"
    /\ call.ret.msg = Piece(1, BLOCK_SIZE, Run(9, BLOCK_SIZE - 4))
    /\ BLen(call.arg.stream) - BLen(call.ret.rest) = BLOCK_SIZE + 9

\* What main.rs does: send_message writes the id and the payload with no length
\* before them; receive_message takes the length prefix L as the size of the
\* whole message, header included: it returns a message only if L >= 5, and has
\* then consumed L bytes.
C23_MainFramingActual ==
    /\ (call.fn = "main_send_message" /\ ~call.ret.panic) =>
          LET w == Wire(call.ret.writes)
          IN  /\ call.arg.kind = "Interested" => w = Bytes(<<2>>)
              /\ call.arg.kind = "Request" =>
                    /\ BLen(w) = 13
                    /\ BAt(w, 0) = 6
                    /\ BigEndianAt(w, 1) = call.arg.index
                    /\ BigEndianAt(w, 5) = call.arg.begin
                    /\ BigEndianAt(w, 9) = call.arg.length
    /\ call.fn = "main_receive_message" =>
          LET L == 1 + BLen(call.arg.first.payload)
          IN  /\ L < 5 => call.ret.status \in {"panic", "eof"}
              /\ call.ret.status = "msg" =>
                    BLen(call.arg.stream) - BLen(call.ret.rest) = L

====
